---- MODULE Spec2Model ----
(***************************************************************************)
(* A model of recce_review_summary.py: the transform that turns a recce    *)
(* state document (two manifest snapshots, "base" and "current", plus a    *)
(* list of checks) into a Markdown summary with an embedded Mermaid graph. *)
(*                                                                         *)
(* Representation.                                                         *)
(*   - A Python dict with string keys that the code reads with d.get(k) or *)
(*     d[k] is a TLA+ function whose DOMAIN is the set of keys present; a  *)
(*     key that is absent from the JSON is absent from the DOMAIN.         *)
(*   - A Python dict the code iterates (the nodes of a manifest,           *)
(*     models_status, dependencies) is an insertion-ordered sequence of    *)
(*     <<key, value>> pairs with distinct keys.                            *)
(*   - A string the code takes apart (a node identifier, a description) is *)
(*     a sequence of one-character strings.                                *)
(*   - The generated texts are sequences of lines or blocks, one record    *)
(*     per f-string the code appends.                                      *)
(***************************************************************************)
EXTENDS Integers, Sequences, FiniteSets, TLC

VARIABLES
    recce_file,        \* the JSON document stored at args.recce_filepath
    pc,                \* the position of main()
    recce_data,        \* main: recce_data
    checks,            \* main: checks
    models_status,     \* main: models_status
    dependencies,      \* main: dependencies
    markdown_content,  \* main: markdown_content
    out_file,          \* the file recce_review_summary.md
    console,           \* what main has printed
    error,             \* the exception that ended main, and the call that raised it
    name,              \* format_model_name: its argument
    formatted          \* format_model_name: the results of applying it repeatedly

vars == <<recce_file, pc, recce_data, checks, models_status, dependencies,
          markdown_content, out_file, console, error, name, formatted>>

main_vars == <<recce_file, pc, recce_data, checks, models_status, dependencies,
               markdown_content, out_file, console, error>>

(***************************************************************************)
(* Bounds of the model.                                                    *)
(***************************************************************************)
\* the longest depends_on list of an input node
MaxDeps == 2
\* the number of distinct checksum strings in the inputs
NumChecksums == 2
\* the longest check list of an input
MaxChecks == 2
\* the longest identifier given to format_model_name
MaxLen == 9
\* how many times format_model_name is re-applied to its own result
MaxApply == 2

(***************************************************************************)
(* Python values.                                                          *)
(***************************************************************************)
\* {} : the dict with no keys (also the default of every .get(k, {}))
EmptyDict == <<>>

\* d[k] raises KeyError
KeyError(d, k) == k \notin DOMAIN d

\* d.get(k, default)
Get(d, k, default) == IF k \in DOMAIN d THEN d[k] ELSE default

\* d.get(k) as an optional: {} is None, {v} is the value v
GetOpt(d, k) == IF k \in DOMAIN d THEN {d[k]} ELSE {}

\* Insertion-ordered dicts: sequences of <<key, value>> with distinct keys.
Keys(od) == {od[i][1] : i \in 1..Len(od)}

\* k in od
In(k, od) == k \in Keys(od)

\* od[k], for a key that is present
Item(od, k) == od[CHOOSE i \in 1..Len(od) : od[i][1] = k][2]

\* od.get(k, default)
OdGet(od, k, default) == IF In(k, od) THEN Item(od, k) ELSE default

\* od[k] = v : an existing key keeps its place, a new key goes last
SetItem(od, k, v) ==
    IF In(k, od)
    THEN [i \in 1..Len(od) |-> IF od[i][1] = k THEN <<k, v>> ELSE od[i]]
    ELSE Append(od, <<k, v>>)

(***************************************************************************)
(* format_model_name (lines 69-72).                                        *)
(***************************************************************************)
\* name.split('.') : the segments between the dots, at least one
RECURSIVE split(_)
split(s) ==
    IF \A i \in 1..Len(s) : s[i] # "."
    THEN <<s>>
    ELSE LET i == CHOOSE j \in 1..Len(s) :
                      s[j] = "." /\ \A k \in 1..(j - 1) : s[k] # "."
         IN  <<SubSeq(s, 1, i - 1)>> \o split(SubSeq(s, i + 1, Len(s)))

\* '.'.join(parts)
RECURSIVE join(_)
join(parts) ==
    IF Len(parts) = 0 THEN <<>>
    ELSE IF Len(parts) = 1 THEN parts[1]
    ELSE parts[1] \o <<".">> \o join(Tail(parts))

\* a slip: strips one segment as soon as there are two
format_model_name_strip1(s) ==
    LET parts == split(s)
    IN  IF Len(parts) > 1 THEN join(SubSeq(parts, 2, Len(parts))) ELSE s

format_model_name(s) ==
    LET parts == split(s)
    IN  IF Len(parts) > 2 THEN join(SubSeq(parts, 3, Len(parts))) ELSE s

(***************************************************************************)
(* The node classifier (lines 19-50).                                      *)
(***************************************************************************)
\* manifest.get('artifacts', {}).get(side, {}).get('manifest', {}).get('nodes', {})
NodesOf(manifest, side) ==
    Get(Get(Get(Get(manifest, "artifacts", EmptyDict),
                side, EmptyDict), "manifest", EmptyDict), "nodes", <<>>)

\* nodes.get(node_id, {}).get('checksum', {}).get('checksum')
checksum_of(node_id, nodes) ==
    GetOpt(Get(OdGet(nodes, node_id, EmptyDict), "checksum", EmptyDict), "checksum")

\* Python's None, as a status
None == "None"

\* a slip: a node that is in both snapshots is never compared
get_model_status_nocompare(node_id, nodes, base_nodes) ==
    IF ~In(node_id, base_nodes) THEN "added"
    ELSE IF ~In(node_id, nodes) THEN "removed"
    ELSE None

\* a slip: the checksum is read with ['checksum']['checksum'], so that a node
\* without one compares as changed
get_model_status_strict(node_id, nodes, base_nodes) ==
    LET current_checksum == checksum_of(node_id, nodes)
        base_checksum    == checksum_of(node_id, base_nodes)
    IN  IF ~In(node_id, base_nodes) THEN "added"
        ELSE IF ~In(node_id, nodes) THEN "removed"
        ELSE IF current_checksum # base_checksum \/ current_checksum = {}
             THEN "modified"
        ELSE None

get_model_status(node_id, nodes, base_nodes) ==
    LET current_checksum == checksum_of(node_id, nodes)
        base_checksum    == checksum_of(node_id, base_nodes)
    IN  IF ~In(node_id, base_nodes) THEN "added"
        ELSE IF ~In(node_id, nodes) THEN "removed"
        ELSE IF current_checksum # base_checksum THEN "modified"
        ELSE None

\* the first loop of get_modified_models (lines 40-44), from entry i on
RECURSIVE classify_current(_, _, _, _)
classify_current(nodes, base_nodes, i, acc) ==
    IF i > Len(nodes) THEN acc
    ELSE LET node_id   == nodes[i][1]
             node_data == nodes[i][2]
             status    == get_model_status(node_id, nodes, base_nodes)
         IN  classify_current(nodes, base_nodes, i + 1,
                 IF node_data["resource_type"] = "model" /\ status # None
                 THEN SetItem(acc, node_id, status)
                 ELSE acc)

\* the second loop of get_modified_models (lines 46-48), from entry i on
RECURSIVE classify_base(_, _, _, _)
classify_base(nodes, base_nodes, i, acc) ==
    IF i > Len(base_nodes) THEN acc
    ELSE LET node_id   == base_nodes[i][1]
             node_data == base_nodes[i][2]
         IN  classify_base(nodes, base_nodes, i + 1,
                 IF ~In(node_id, nodes) /\ node_data["resource_type"] = "model"
                 THEN SetItem(acc, node_id, "removed")
                 ELSE acc)

\* get_modified_models raises KeyError: node_data['resource_type'] is evaluated
\* for every current node, and for every base node that is not in current
get_modified_models_raises(manifest) ==
    LET nodes      == NodesOf(manifest, "current")
        base_nodes == NodesOf(manifest, "base")
    IN  \/ \E i \in 1..Len(nodes) : KeyError(nodes[i][2], "resource_type")
        \/ \E i \in 1..Len(base_nodes) :
              /\ ~In(base_nodes[i][1], nodes)
              /\ KeyError(base_nodes[i][2], "resource_type")

\* a slip: the second loop leaves out "node_id not in nodes"
RECURSIVE classify_base_any(_, _, _, _)
classify_base_any(nodes, base_nodes, i, acc) ==
    IF i > Len(base_nodes) THEN acc
    ELSE LET node_id   == base_nodes[i][1]
             node_data == base_nodes[i][2]
         IN  classify_base_any(nodes, base_nodes, i + 1,
                 IF Get(node_data, "resource_type", None) = "model"
                 THEN SetItem(acc, node_id, "removed")
                 ELSE acc)

get_modified_models_anybase(manifest) ==
    LET nodes      == NodesOf(manifest, "current")
        base_nodes == NodesOf(manifest, "base")
    IN  classify_base_any(nodes, base_nodes, 1,
                          classify_current(nodes, base_nodes, 1, <<>>))

get_modified_models(manifest) ==
    LET nodes      == NodesOf(manifest, "current")
        base_nodes == NodesOf(manifest, "base")
    IN  classify_base(nodes, base_nodes, 1,
                      classify_current(nodes, base_nodes, 1, <<>>))

(***************************************************************************)
(* The dependency projector (lines 52-67).                                 *)
(***************************************************************************)
\* nodes.get(model, {}).get('depends_on', {}).get('nodes', [])
parent_nodes_of(node_data) ==
    Get(Get(node_data, "depends_on", EmptyDict), "nodes", <<>>)

\* a slip: the comprehension has no condition
model_parents_unfiltered(parent_nodes, nodes) == parent_nodes

\* [parent for parent in parent_nodes
\*         if nodes.get(parent, {}).get('resource_type') == 'model']
RECURSIVE model_parents(_, _)
model_parents(parent_nodes, nodes) ==
    IF parent_nodes = <<>> THEN <<>>
    ELSE LET parent == Head(parent_nodes)
         IN  (IF GetOpt(OdGet(nodes, parent, EmptyDict), "resource_type") = {"model"}
              THEN <<parent>> ELSE <<>>)
             \o model_parents(Tail(parent_nodes), nodes)

\* the first loop of get_relevant_dependencies (lines 57-59), from entry i on
RECURSIVE upstream_edges(_, _, _, _)
upstream_edges(nodes, modified_models, i, acc) ==
    IF i > Len(modified_models) THEN acc
    ELSE LET model        == modified_models[i][1]
             parent_nodes == parent_nodes_of(OdGet(nodes, model, EmptyDict))
         IN  upstream_edges(nodes, modified_models, i + 1,
                 SetItem(acc, model, model_parents(parent_nodes, nodes)))

\* the inner loop (lines 63-65): dependencies[model].append(parent) for every
\* parent that is in modified_models; dependencies is a defaultdict(list)
RECURSIVE append_classified(_, _, _, _)
append_classified(model, parent_nodes, modified_models, acc) ==
    IF parent_nodes = <<>> THEN acc
    ELSE LET parent == Head(parent_nodes)
         IN  append_classified(model, Tail(parent_nodes), modified_models,
                 IF In(parent, modified_models)
                 THEN SetItem(acc, model, Append(OdGet(acc, model, <<>>), parent))
                 ELSE acc)

\* the second loop of get_relevant_dependencies (lines 61-65), from entry i on
RECURSIVE downstream_edges(_, _, _, _)
downstream_edges(nodes, modified_models, i, acc) ==
    IF i > Len(nodes) THEN acc
    ELSE LET model     == nodes[i][1]
             node_data == nodes[i][2]
         IN  downstream_edges(nodes, modified_models, i + 1,
                 IF ~In(model, modified_models) /\ node_data["resource_type"] = "model"
                 THEN append_classified(model, parent_nodes_of(node_data),
                                        modified_models, acc)
                 ELSE acc)

\* a slip: the second loop reads dependencies[model] before it looks at the
\* parents, and the defaultdict makes an empty entry for every unclassified model
RECURSIVE downstream_edges_touching(_, _, _, _)
downstream_edges_touching(nodes, modified_models, i, acc) ==
    IF i > Len(nodes) THEN acc
    ELSE LET model     == nodes[i][1]
             node_data == nodes[i][2]
         IN  downstream_edges_touching(nodes, modified_models, i + 1,
                 IF ~In(model, modified_models) /\ node_data["resource_type"] = "model"
                 THEN append_classified(model, parent_nodes_of(node_data),
                          modified_models,
                          SetItem(acc, model, OdGet(acc, model, <<>>)))
                 ELSE acc)

get_relevant_dependencies_touching(manifest, modified_models) ==
    LET nodes == NodesOf(manifest, "current")
    IN  downstream_edges_touching(nodes, modified_models, 1,
                                  upstream_edges(nodes, modified_models, 1, <<>>))

\* get_relevant_dependencies raises KeyError (line 62)
get_relevant_dependencies_raises(manifest, modified_models) ==
    LET nodes == NodesOf(manifest, "current")
    IN  \E i \in 1..Len(nodes) :
            /\ ~In(nodes[i][1], modified_models)
            /\ KeyError(nodes[i][2], "resource_type")

get_relevant_dependencies(manifest, modified_models) ==
    LET nodes == NodesOf(manifest, "current")
    IN  downstream_edges(nodes, modified_models, 1,
                         upstream_edges(nodes, modified_models, 1, <<>>))

(***************************************************************************)
(* The diagram renderer (lines 8-12, 74-94).                               *)
(***************************************************************************)
ADD_COLOR == "#1dce00"
MODIFIED_COLOR == "#ffa502"
REMOVE_COLOR == "#ff067e"
BORDER_COLOR == "#FFA500"
TRANSPARENT_COLOR == "#cccccc"

\* "graph LR\n"
HeaderLine == [kind |-> "header", text |-> "graph LR"]

\* f"{model}[" + formatted_model + "]\n"
DeclLine(model, formatted_model) ==
    [kind |-> "decl", model |-> model, label |-> formatted_model]

\* f'style {model} stroke:{color},stroke-width:2px;\n'
StyleLine(model, color) == [kind |-> "style", model |-> model, stroke |-> color]

\* f'{dep}-->{model}\n' and f'{dep}-.->{model}\n'
EdgeLine(dep, arrow, model) ==
    [kind |-> "edge", from |-> dep, arrow |-> arrow, to |-> model]

\* the dict of line 80-84, read with .get(status, '')
style_of(model, status) ==
    IF status = "added" THEN <<StyleLine(model, ADD_COLOR)>>
    ELSE IF status = "modified" THEN <<StyleLine(model, BORDER_COLOR)>>
    ELSE IF status = "removed" THEN <<StyleLine(model, REMOVE_COLOR)>>
    ELSE <<>>

\* the first loop of generate_mermaid_graph (lines 78-85), from entry i on
RECURSIVE node_lines(_, _)
node_lines(status_map, i) ==
    IF i > Len(status_map) THEN <<>>
    ELSE LET model  == status_map[i][1]
             status == status_map[i][2]
         IN  <<DeclLine(model, format_model_name(model))>>
             \o style_of(model, status)
             \o node_lines(status_map, i + 1)

\* a slip: the arrow is chosen by the dependency, not by the node
edge_line_bydep(status_map, model, dep) ==
    IF In(dep, status_map) THEN EdgeLine(dep, "-->", model)
    ELSE EdgeLine(dep, "-.->", model)

\* lines 89-92
edge_line(status_map, model, dep) ==
    IF In(model, status_map) THEN EdgeLine(dep, "-->", model)
    ELSE EdgeLine(dep, "-.->", model)

\* the inner loop (lines 88-92)
RECURSIVE edges_of(_, _, _)
edges_of(status_map, model, deps) ==
    IF deps = <<>> THEN <<>>
    ELSE <<edge_line(status_map, model, Head(deps))>>
         \o edges_of(status_map, model, Tail(deps))

\* the second loop of generate_mermaid_graph (lines 87-92), from entry i on
RECURSIVE edge_lines(_, _, _)
edge_lines(status_map, deps_map, i) ==
    IF i > Len(deps_map) THEN <<>>
    ELSE edges_of(status_map, deps_map[i][1], deps_map[i][2])
         \o edge_lines(status_map, deps_map, i + 1)

\* a slip: a node line for every node of the dependency mapping as well
generate_mermaid_graph_allnodes(status_map, deps_map) ==
    <<HeaderLine>>
    \o node_lines(status_map, 1)
    \o [i \in 1..Len(deps_map) |->
           DeclLine(deps_map[i][1], format_model_name(deps_map[i][1]))]
    \o edge_lines(status_map, deps_map, 1)

generate_mermaid_graph(status_map, deps_map) ==
    <<HeaderLine>> \o node_lines(status_map, 1) \o edge_lines(status_map, deps_map, 1)

(***************************************************************************)
(* The summary composer (lines 96-129).                                    *)
(***************************************************************************)
\* str.strip() on a sequence of characters; the blank is the only whitespace
\* the inputs use
RECURSIVE lstrip(_)
lstrip(s) == IF s # <<>> /\ Head(s) = " " THEN lstrip(Tail(s)) ELSE s

RECURSIVE rstrip(_)
rstrip(s) ==
    IF s # <<>> /\ s[Len(s)] = " " THEN rstrip(SubSeq(s, 1, Len(s) - 1)) ELSE s

strip(s) == rstrip(lstrip(s))

NoFindings == <<"(", "N", "o", " ", "f", "i", "n", "d", "i", "n", "g", "s", ")">>

\* a slip: the failed checks are counted as passed
RECURSIVE count_unchecked(_)
count_unchecked(check_list) ==
    IF check_list = <<>> THEN 0
    ELSE (IF Head(check_list)["is_checked"] THEN 0 ELSE 1)
         + count_unchecked(Tail(check_list))

\* sum(1 for check in checks if check["is_checked"])
RECURSIVE count_checked(_)
count_checked(check_list) ==
    IF check_list = <<>> THEN 0
    ELSE (IF Head(check_list)["is_checked"] THEN 1 ELSE 0)
         + count_checked(Tail(check_list))

\* lines 121-127: the collapsible section of one check
details_of(check) ==
    LET status_icon == IF check["is_checked"] THEN "pass" ELSE "fail"
        stripped    == strip(check["description"])
        findings    == IF stripped # <<>> THEN stripped ELSE NoFindings
    IN  [kind |-> "details", name |-> check["name"], icon |-> status_icon,
         findings |-> findings]

\* the loop of lines 120-127
RECURSIVE details_lines(_)
details_lines(check_list) ==
    IF check_list = <<>> THEN <<>>
    ELSE <<details_of(Head(check_list))>> \o details_lines(Tail(check_list))

\* generate_markdown raises KeyError: check["is_checked"] (lines 99, 121),
\* check['description'] (line 122), check['name'] (line 125)
generate_markdown_raises(check_list) ==
    \E i \in 1..Len(check_list) :
        \/ KeyError(check_list[i], "is_checked")
        \/ KeyError(check_list[i], "description")
        \/ KeyError(check_list[i], "name")

\* The document, one block per group of lines the code appends.  The
\* timestamp is the wall clock's and is not modelled.
generate_markdown(check_list, status_map, deps_map) ==
    LET passed_checks == count_checked(check_list)
        failed_checks == Len(check_list) - passed_checks
        mermaid_graph == generate_mermaid_graph(status_map, deps_map)
    IN  << [kind |-> "title"],
           [kind |-> "generated_on"],
           [kind |-> "passed", count |-> passed_checks],
           [kind |-> "failed", count |-> failed_checks],
           [kind |-> "mermaid", graph |-> mermaid_graph],
           [kind |-> "checks_overview"] >>
        \o details_lines(check_list)

(***************************************************************************)
(* main (lines 131-146), one action per statement.                         *)
(***************************************************************************)
NoError == [step |-> "", exc |-> ""]

UntouchedFile == [touched |-> FALSE, written |-> FALSE, content |-> <<>>]

Raise(step, exc) ==
    /\ pc' = "failed"
    /\ error' = [step |-> step, exc |-> exc]

\* lines 140-141: load_recce_state (open, json.load) and recce_data.get('checks', []).
\* The file may be missing or may not hold JSON.
LoadRecceState ==
    /\ pc = "start"
    /\ \/ /\ recce_data' = recce_file
          /\ checks' = Get(recce_file, "checks", <<>>)
          /\ pc' = "loaded"
          /\ error' = error
       \/ /\ Raise("load_recce_state", "OSError or JSONDecodeError")
          /\ UNCHANGED <<recce_data, checks>>
    /\ UNCHANGED <<recce_file, models_status, dependencies, markdown_content,
                   out_file, console, name, formatted>>

\* line 142
GetModifiedModels ==
    /\ pc = "loaded"
    /\ IF get_modified_models_raises(recce_data)
       THEN Raise("get_modified_models", "KeyError") /\ UNCHANGED models_status
       ELSE /\ models_status' = get_modified_models(recce_data)
            /\ pc' = "classified"
            /\ error' = error
    /\ UNCHANGED <<recce_file, recce_data, checks, dependencies, markdown_content,
                   out_file, console, name, formatted>>

\* line 143
GetRelevantDependencies ==
    /\ pc = "classified"
    /\ IF get_relevant_dependencies_raises(recce_data, models_status)
       THEN Raise("get_relevant_dependencies", "KeyError") /\ UNCHANGED dependencies
       ELSE /\ dependencies' = get_relevant_dependencies(recce_data, models_status)
            /\ pc' = "projected"
            /\ error' = error
    /\ UNCHANGED <<recce_file, recce_data, checks, models_status, markdown_content,
                   out_file, console, name, formatted>>

\* a slip: the document is written to the output file while it is composed
GenerateMarkdownStreaming ==
    /\ pc = "projected"
    /\ IF generate_markdown_raises(checks)
       THEN /\ Raise("generate_markdown", "KeyError")
            /\ out_file' = [touched |-> TRUE, written |-> FALSE, content |-> <<>>]
            /\ UNCHANGED markdown_content
       ELSE /\ markdown_content' = generate_markdown(checks, models_status, dependencies)
            /\ pc' = "composed"
            /\ error' = error
            /\ out_file' = out_file
    /\ UNCHANGED <<recce_file, recce_data, checks, models_status, dependencies,
                   console, name, formatted>>

\* line 144
GenerateMarkdown ==
    /\ pc = "projected"
    /\ IF generate_markdown_raises(checks)
       THEN Raise("generate_markdown", "KeyError") /\ UNCHANGED markdown_content
       ELSE /\ markdown_content' = generate_markdown(checks, models_status, dependencies)
            /\ pc' = "composed"
            /\ error' = error
    /\ UNCHANGED <<recce_file, recce_data, checks, models_status, dependencies,
                   out_file, console, name, formatted>>

\* lines 145, 132: open(filepath, 'w') truncates the file, or fails and leaves it
SaveMarkdownOpen ==
    /\ pc = "composed"
    /\ \/ /\ out_file' = [touched |-> TRUE, written |-> FALSE, content |-> <<>>]
          /\ pc' = "opened"
          /\ error' = error
       \/ /\ Raise("save_markdown", "OSError")
          /\ out_file' = out_file
    /\ UNCHANGED <<recce_file, recce_data, checks, models_status, dependencies,
                   markdown_content, console, name, formatted>>

\* line 133: file.write(content) and the close of the with block
SaveMarkdownWrite ==
    /\ pc = "opened"
    /\ \/ /\ out_file' = [touched |-> TRUE, written |-> TRUE,
                           content |-> markdown_content]
          /\ pc' = "saved"
          /\ error' = error
       \/ /\ Raise("save_markdown", "OSError")
          /\ out_file' = out_file
    /\ UNCHANGED <<recce_file, recce_data, checks, models_status, dependencies,
                   markdown_content, console, name, formatted>>

Confirmation == "Markdown file generated: recce_review_summary.md"

\* line 146
PrintConfirmation ==
    /\ pc = "saved"
    /\ console' = Append(console, Confirmation)
    /\ pc' = "done"
    /\ UNCHANGED <<recce_file, recce_data, checks, models_status, dependencies,
                   markdown_content, out_file, error, name, formatted>>

Next ==
    \/ LoadRecceState
    \/ GetModifiedModels
    \/ GetRelevantDependencies
    \/ GenerateMarkdown
    \/ SaveMarkdownOpen
    \/ SaveMarkdownWrite
    \/ PrintConfirmation

(***************************************************************************)
(* The inputs: recce state documents of the shape the code consumes.       *)
(***************************************************************************)
\* "m.p.a", "m.p.b" (display names "a", "b") and "s.c" (displayed unchanged)
IdA == <<"m", ".", "p", ".", "a">>
IdB == <<"m", ".", "p", ".", "b">>
IdC == <<"s", ".", "c">>

ChecksumStr == <<"x1", "x2", "x3", "x4">>
Checksums == {ChecksumStr[i] : i \in 1..NumChecksums}

\* The one element of a singleton
The(S) == CHOOSE x \in S : TRUE

\* A node record. T, C and D hold at most one element each: the value of
\* "resource_type", of "checksum" and of "depends_on"; an empty set leaves the
\* key out of the record.
Node(T, C, D) ==
    [k \in {"resource_type" : x \in T} \cup {"checksum" : x \in C}
           \cup {"depends_on" : x \in D} |->
        IF k = "resource_type" THEN The(T)
        ELSE IF k = "checksum" THEN The(C)
        ELSE The(D)]

\* "checksum": {"checksum": c}
Cs(c) == {[checksum |-> c]}

\* "depends_on": {"nodes": [...]}
Deps(parents) == {[nodes |-> parents]}

\* the sequences over S of length at most n
SeqsUpTo(S, n) == UNION {[1..k -> S] : k \in 0..n}

\* The nodes mapping that lists, in the order of ids, every id with a record:
\* pick[id] holds the record of id, or is empty when id is not a node.
RECURSIVE NodesFrom(_, _)
NodesFrom(ids, pick) ==
    IF ids = <<>> THEN <<>>
    ELSE (IF pick[Head(ids)] = {} THEN <<>>
          ELSE << <<Head(ids), The(pick[Head(ids)])>> >>)
         \o NodesFrom(Tail(ids), pick)

Range(s) == {s[i] : i \in 1..Len(s)}

\* every nodes mapping over the identifiers ids, in that order, with the
\* records of id drawn from Recs[id]
Snapshots(ids, Recs) ==
    {NodesFrom(ids, pick) :
        pick \in {f \in [Range(ids) -> {{}} \cup {{r} : r \in UNION {Recs[i] : i \in Range(ids)}}] :
                    \A i \in Range(ids) : f[i] \subseteq Recs[i]}}

\* The document. K, Cur and Base hold at most one element each: the check
\* list, the current nodes and the base nodes; an empty set leaves the key
\* ("checks", "current", "base") out, and "artifacts" is left out when it
\* would be empty.
Doc(K, Cur, Base) ==
    LET sides     == {"current" : x \in Cur} \cup {"base" : x \in Base}
        artifacts == [side \in sides |->
                         [manifest |->
                             [nodes |-> IF side = "current" THEN The(Cur)
                                        ELSE The(Base)]]]
    IN  [k \in {"checks" : x \in K} \cup {"artifacts" : x \in sides} |->
            IF k = "checks" THEN The(K) ELSE artifacts]

\* a nodes mapping, or the key left out where the mapping would be empty
OrAbsent(Snaps) == {{n} : n \in Snaps} \cup {{}}

\* A check record: the keys in keys, among "name", "is_checked", "description"
Check(keys, n, c, d) ==
    [k \in keys |-> IF k = "name" THEN n ELSE IF k = "is_checked" THEN c ELSE d]

CheckKeys == {"name", "is_checked", "description"}

OneCheck == Check(CheckKeys, "row count", TRUE, <<"o", "k">>)

InitMain(docs) ==
    /\ recce_file \in docs
    /\ pc = "start"
    /\ recce_data = EmptyDict
    /\ checks = <<>>
    /\ models_status = <<>>
    /\ dependencies = <<>>
    /\ markdown_content = <<>>
    /\ out_file = UntouchedFile
    /\ console = <<>>
    /\ error = NoError
    /\ name = <<>>
    /\ formatted = <<>>

(***************************************************************************)
(* SpecClassify: main on the documents that vary what the classifier       *)
(* reads.  Two identifiers, each a node of current, of base, of both or of *)
(* neither; a record has a resource_type or none, a checksum (absent,      *)
(* "checksum": {} or a string) and, in current, no dependency list or one. *)
(***************************************************************************)
ClassifyCurrentRecs ==
    {EmptyDict} \cup
    {Node({t}, C, D) : t \in {"model", "seed"},
                       C \in {{}, {EmptyDict}} \cup {Cs(c) : c \in Checksums},
                       D \in {{}, Deps(<<IdA>>)}}

ClassifyBaseRecs ==
    {EmptyDict} \cup
    {Node({t}, C, {}) : t \in {"model", "seed"},
                        C \in {{}} \cup {Cs(c) : c \in Checksums}}

ClassifyDocs ==
    {Doc({<<OneCheck>>}, Cur, Base) :
        Cur  \in OrAbsent(Snapshots(<<IdA, IdB>>, [i \in {IdA, IdB} |-> ClassifyCurrentRecs])),
        Base \in OrAbsent(Snapshots(<<IdA, IdB>>, [i \in {IdA, IdB} |-> ClassifyBaseRecs]))}

InitClassify == InitMain(ClassifyDocs)

SpecClassify == InitClassify /\ [][Next]_vars

(***************************************************************************)
(* What the claims speak of, read off the input document and the state.    *)
(***************************************************************************)
CurrentNodes == NodesOf(recce_file, "current")
BaseNodes == NodesOf(recce_file, "base")
AllIds == Keys(CurrentNodes) \cup Keys(BaseNodes)

\* the record of node n in a snapshot that holds it
RecordOf(n, snapshot) == Item(snapshot, n)

\* node n is in the snapshot with resource_type "model"
IsModelIn(n, snapshot) ==
    /\ In(n, snapshot)
    /\ "resource_type" \in DOMAIN RecordOf(n, snapshot)
    /\ RecordOf(n, snapshot)["resource_type"] = "model"

\* the snapshot the classifier consults for n: current when n is in it, else base
IsModelWhereConsulted(n) ==
    IF In(n, CurrentNodes) THEN IsModelIn(n, CurrentNodes) ELSE IsModelIn(n, BaseNodes)

\* node n of the snapshot carries a checksum string
HasChecksum(n, snapshot) ==
    /\ "checksum" \in DOMAIN RecordOf(n, snapshot)
    /\ "checksum" \in DOMAIN RecordOf(n, snapshot)["checksum"]

ChecksumIn(n, snapshot) == RecordOf(n, snapshot)["checksum"]["checksum"]

\* n is in both snapshots and its two checksums are equal: both absent, or
\* both present and the same string
SameChecksum(n) ==
    \/ ~HasChecksum(n, CurrentNodes) /\ ~HasChecksum(n, BaseNodes)
    \/ /\ HasChecksum(n, CurrentNodes) /\ HasChecksum(n, BaseNodes)
       /\ ChecksumIn(n, CurrentNodes) = ChecksumIn(n, BaseNodes)

\* the depends_on list of node n in current, empty when there is none
DependsOn(n) ==
    IF ~In(n, CurrentNodes) THEN <<>>
    ELSE LET r == RecordOf(n, CurrentNodes)
         IN  IF "depends_on" \in DOMAIN r /\ "nodes" \in DOMAIN r["depends_on"]
             THEN r["depends_on"]["nodes"] ELSE <<>>

\* the statuses models_status maps n to (none, or one)
StatusesOf(n) == {models_status[i][2] : i \in {j \in 1..Len(models_status) : models_status[j][1] = n}}

\* get_modified_models has returned, get_relevant_dependencies has returned
Classified ==
    \/ pc \in {"classified", "projected", "composed", "opened", "saved", "done"}
    \/ pc = "failed" /\ error.step \notin {"load_recce_state", "get_modified_models"}

Projected ==
    \/ pc \in {"projected", "composed", "opened", "saved", "done"}
    \/ pc = "failed" /\ error.step \in {"generate_markdown", "save_markdown"}

\* every node record of both snapshots carries a resource_type
AllTyped ==
    /\ \A i \in 1..Len(CurrentNodes) : "resource_type" \in DOMAIN CurrentNodes[i][2]
    /\ \A i \in 1..Len(BaseNodes) : "resource_type" \in DOMAIN BaseNodes[i][2]

(***************************************************************************)
(* The claims about the classifier.                                        *)
(***************************************************************************)
\* C1: once get_modified_models has returned, every node whose record in the
\* consulted snapshot is model-typed is mapped to "added" when it is in current
\* and not in base, to "removed" when it is in base and not in current, to
\* "modified" when it is in both with different checksums, and is no key of
\* the result when it is in both with equal checksums.
C1_StatusRule ==
    Classified =>
        \A n \in AllIds :
            IsModelWhereConsulted(n) =>
                /\ (In(n, CurrentNodes) /\ ~In(n, BaseNodes))
                       => StatusesOf(n) = {"added"}
                /\ (In(n, BaseNodes) /\ ~In(n, CurrentNodes))
                       => StatusesOf(n) = {"removed"}
                /\ (In(n, CurrentNodes) /\ In(n, BaseNodes) /\ ~SameChecksum(n))
                       => StatusesOf(n) = {"modified"}
                /\ (In(n, CurrentNodes) /\ In(n, BaseNodes) /\ SameChecksum(n))
                       => ~In(n, models_status)

\* a run that classified one node as modified and left out another, a model
\* node of both snapshots with one checksum string
C1_Witness ==
    /\ pc = "classified"
    /\ StatusesOf(IdA) = {"modified"}
    /\ IsModelIn(IdB, CurrentNodes) /\ In(IdB, BaseNodes)
    /\ HasChecksum(IdB, CurrentNodes) /\ SameChecksum(IdB)
    /\ ~In(IdB, models_status)

\* C6: the classification holds only model-typed nodes, each under one key
\* with one of the three statuses: a key that is in current is model-typed in
\* current, any other key is model-typed in base; so a node whose current
\* record is not model-typed is never classified.
C6_OnlyModels ==
    Classified =>
        /\ \A i \in 1..Len(models_status) :
              LET n == models_status[i][1]
              IN  /\ models_status[i][2] \in {"added", "modified", "removed"}
                  /\ In(n, CurrentNodes) => IsModelIn(n, CurrentNodes)
                  /\ ~In(n, CurrentNodes) => IsModelIn(n, BaseNodes)
                  /\ \A j \in 1..Len(models_status) : models_status[j][1] = n => j = i
        /\ \A n \in Keys(CurrentNodes) :
              ~IsModelIn(n, CurrentNodes) => ~In(n, models_status)

\* a run that classified while a node was a model in base and a seed in current
C6_Witness ==
    /\ pc = "classified"
    /\ IsModelIn(IdA, BaseNodes)
    /\ In(IdA, CurrentNodes) /\ ~IsModelIn(IdA, CurrentNodes)
    /\ StatusesOf(IdB) = {"removed"}

\* C9: when every node record carries a resource_type, neither the classifier
\* nor the projector raises, whatever else is absent; a node of both snapshots
\* with no checksum in either is unclassified and one with a checksum in only
\* one is modified; without a current snapshot every classified node is a
\* removed one and without a base snapshot every current model node is added;
\* a node without a dependency list gets the empty sequence when it is
\* classified and no entry when it is not.
C9_AbsentTolerated ==
    AllTyped =>
        /\ ~(pc = "failed" /\ error.step \in {"get_modified_models",
                                               "get_relevant_dependencies"})
        /\ Classified =>
              /\ \A n \in Keys(CurrentNodes) \cap Keys(BaseNodes) :
                    IsModelIn(n, CurrentNodes) =>
                        /\ (~HasChecksum(n, CurrentNodes) /\ ~HasChecksum(n, BaseNodes))
                               => ~In(n, models_status)
                        /\ (HasChecksum(n, CurrentNodes) # HasChecksum(n, BaseNodes))
                               => StatusesOf(n) = {"modified"}
              /\ CurrentNodes = <<>> =>
                    /\ \A i \in 1..Len(models_status) : models_status[i][2] = "removed"
                    /\ \A n \in Keys(BaseNodes) :
                          IsModelIn(n, BaseNodes) => In(n, models_status)
              /\ BaseNodes = <<>> =>
                    /\ \A i \in 1..Len(models_status) : models_status[i][2] = "added"
                    /\ \A n \in Keys(CurrentNodes) :
                          IsModelIn(n, CurrentNodes) => In(n, models_status)
        /\ Projected =>
              \A n \in Keys(CurrentNodes) :
                  "depends_on" \notin DOMAIN RecordOf(n, CurrentNodes) =>
                      IF In(n, models_status)
                      THEN In(n, dependencies) /\ Item(dependencies, n) = <<>>
                      ELSE ~In(n, dependencies)

\* a finished run on a document without a base snapshot, whose one current
\* node has neither a checksum nor a dependency list
C9_Witness ==
    /\ pc = "done"
    /\ AllTyped
    /\ "artifacts" \in DOMAIN recce_file
    /\ "base" \notin DOMAIN recce_file["artifacts"]
    /\ Keys(CurrentNodes) = {IdB}
    /\ DOMAIN RecordOf(IdB, CurrentNodes) = {"resource_type"}
    /\ models_status = << <<IdB, "added">> >>
    /\ dependencies = << <<IdB, <<>> >> >>

(***************************************************************************)
(* SpecDeps: main on the documents that vary what the projector reads.     *)
(* "m.p.a" and "m.p.b" are absent from current, a seed (without parents or *)
(* with the parent "m.p.a"), or a model with any depends_on list of at     *)
(* most MaxDeps identifiers; "s.c" is absent, a seed or a model without    *)
(* parents; in base a node is absent or a model with the same or another   *)
(* checksum.                                                               *)
(***************************************************************************)
DepsCurrentRecs ==
    [i \in {IdA, IdB, IdC} |->
        IF i = IdC
        THEN {Node({"seed"}, Cs("x1"), {}), Node({"model"}, Cs("x1"), {})}
        ELSE {Node({"seed"}, Cs("x1"), {}), Node({"seed"}, Cs("x1"), Deps(<<IdA>>))} \cup
             {Node({"model"}, Cs("x1"), Deps(d)) :
                  d \in SeqsUpTo({IdA, IdB, IdC}, MaxDeps)}]

DepsBaseRecs ==
    [i \in {IdA, IdB, IdC} |->
        {Node({"model"}, Cs("x1"), {}), Node({"model"}, Cs("x2"), {})}]

DepsDocs ==
    {Doc({<<OneCheck>>}, {Cur}, {Base}) :
        Cur  \in Snapshots(<<IdA, IdB, IdC>>, DepsCurrentRecs),
        Base \in Snapshots(<<IdA, IdB, IdC>>, DepsBaseRecs)}

InitDeps == InitMain(DepsDocs)

SpecDeps == InitDeps /\ [][Next]_vars

(***************************************************************************)
(* The claims about the projector and the edges of the diagram.            *)
(***************************************************************************)
\* generate_markdown has returned
Composed ==
    \/ pc \in {"composed", "opened", "saved", "done"}
    \/ pc = "failed" /\ error.step = "save_markdown"

\* the diagram inside the composed document
Graph == markdown_content[5].graph

\* how often x occurs in the sequence s
Occurrences(x, s) == Cardinality({i \in 1..Len(s) : s[i] = x})

IsClassified(n) == In(n, models_status)

\* C2: the dependency mapping has these entries and no other: every classified
\* node, with its current depends_on list cut down to the model nodes of
\* current (empty for a node that is not in current); every unclassified model
\* node of current with a classified parent, with its depends_on list cut down
\* to the classified identifiers.  Order and duplicates are kept.
C2_DependencyMapping ==
    Projected =>
        /\ \A i, j \in 1..Len(dependencies) :
              dependencies[i][1] = dependencies[j][1] => i = j
        /\ Keys(dependencies) =
              Keys(models_status) \cup
              {n \in Keys(CurrentNodes) :
                  /\ ~IsClassified(n)
                  /\ IsModelIn(n, CurrentNodes)
                  /\ \E k \in 1..Len(DependsOn(n)) : IsClassified(DependsOn(n)[k])}
        /\ \A n \in Keys(dependencies) :
              Item(dependencies, n) =
                  IF IsClassified(n)
                  THEN IF In(n, CurrentNodes)
                       THEN SelectSeq(DependsOn(n),
                                      LAMBDA d : IsModelIn(d, CurrentNodes))
                       ELSE <<>>
                  ELSE SelectSeq(DependsOn(n), LAMBDA d : IsClassified(d))

\* a run that projected: "m.p.a" is modified and keeps both occurrences of its
\* model parent "m.p.b"; "m.p.b" is unchanged and has the modified parent
\* twice; the removed node "s.c" has the empty sequence
C2_Witness ==
    /\ pc = "projected"
    /\ models_status = << <<IdA, "modified">>, <<IdC, "removed">> >>
    /\ DependsOn(IdA) = <<IdB, IdB>>
    /\ DependsOn(IdB) = <<IdA, IdA>>
    /\ dependencies = << <<IdA, <<IdB, IdB>> >>, <<IdC, <<>> >>, <<IdB, <<IdA, IdA>> >> >>

\* the edge lines of the diagram
EdgeLines == SelectSeq(Graph, LAMBDA l : l.kind = "edge")

\* the number of (node, dependency) occurrences in the dependency mapping
RECURSIVE TotalDeps(_)
TotalDeps(i) ==
    IF i > Len(dependencies) THEN 0 ELSE Len(dependencies[i][2]) + TotalDeps(i + 1)

\* C3: the diagram has one edge line per (node, dependency) occurrence of the
\* dependency mapping and no other edge line; the line runs from the
\* dependency to the node and its arrow is solid exactly when the node is
\* classified, dashed otherwise.
C3_EdgeArrows ==
    Composed =>
        /\ Len(EdgeLines) = TotalDeps(1)
        /\ \A i \in 1..Len(dependencies) :
              LET model == dependencies[i][1]
                  deps  == dependencies[i][2]
                  arrow == IF IsClassified(model) THEN "-->" ELSE "-.->"
              IN  \A k \in 1..Len(deps) :
                      /\ Occurrences(EdgeLine(deps[k], arrow, model), EdgeLines)
                            = Occurrences(deps[k], deps)
                      /\ \A a \in {"-->", "-.->"} \ {arrow} :
                            Occurrences(EdgeLine(deps[k], a, model), EdgeLines) = 0

\* a composed document whose diagram has a dashed edge from the modified
\* "m.p.a" to the unchanged "m.p.b" and a solid edge into "m.p.a"
C3_Witness ==
    /\ pc = "composed"
    /\ StatusesOf(IdA) = {"modified"}
    /\ In(IdB, CurrentNodes) /\ ~IsClassified(IdB)
    /\ Occurrences(EdgeLine(IdA, "-.->", IdB), EdgeLines) = 2
    /\ Occurrences(EdgeLine(IdB, "-->", IdA), EdgeLines) = 1

\* C5: every key of the dependency mapping and every identifier in its
\* sequences is a node with resource_type "model" in the snapshot the
\* classifier consults for it (current when it is there, else base).
C5_OnlyModelEdges ==
    Projected =>
        \A i \in 1..Len(dependencies) :
            /\ IsModelWhereConsulted(dependencies[i][1])
            /\ \A k \in 1..Len(dependencies[i][2]) :
                  IsModelWhereConsulted(dependencies[i][2][k])

\* a run that projected: the added "m.p.a" depends on the seed "s.c" and on the
\* model "m.p.b", and only the model is kept
C5_Witness ==
    /\ pc = "projected"
    /\ StatusesOf(IdA) = {"added"}
    /\ DependsOn(IdA) = <<IdC, IdB>>
    /\ In(IdC, CurrentNodes) /\ ~IsModelIn(IdC, CurrentNodes)
    /\ Item(dependencies, IdA) = <<IdB>>

(***************************************************************************)
(* SpecOrder: main on the documents that vary the order of the nodes.      *)
(* Each snapshot lists any of the three identifiers in any order; a        *)
(* current node is a model (without parents or with the parent "m.p.a") or *)
(* a seed, a base node a model with the same or another checksum.          *)
(***************************************************************************)
Perms(S) ==
    {p \in [1..Cardinality(S) -> S] :
        \A i, j \in 1..Cardinality(S) : p[i] = p[j] => i = j}

OrderCurrentRecs ==
    [i \in {IdA, IdB, IdC} |->
        {Node({"model"}, Cs("x1"), {}),
         Node({"model"}, Cs("x1"), Deps(<<IdA>>)),
         Node({"seed"}, Cs("x1"), Deps(<<IdA>>))}]

OrderDocs ==
    {Doc({<<OneCheck>>}, {Cur}, {Base}) :
        Cur  \in UNION {Snapshots(o, OrderCurrentRecs) : o \in Perms({IdA, IdB, IdC})},
        Base \in UNION {Snapshots(o, DepsBaseRecs) : o \in Perms({IdA, IdB, IdC})}}

InitOrder == InitMain(OrderDocs)

SpecOrder == InitOrder /\ [][Next]_vars

\* the stroke of the style line of a status
StrokeOf(status) ==
    IF status = "added" THEN "#1dce00"
    ELSE IF status = "modified" THEN "#FFA500"
    ELSE "#ff067e"

\* C4: the diagram is the header line, then for each classified node, in the
\* order of the classification, its declaration line and right after it the
\* style line of its status, then edge lines only; so no unclassified node has
\* a declaration line or a style line, also when an edge ends at it.
C4_NodeLines ==
    Composed =>
        LET L == Len(models_status)
        IN  /\ Len(Graph) >= 2 * L + 1
            /\ Graph[1] = HeaderLine
            /\ \A i \in 1..L :
                  /\ Graph[2 * i].kind = "decl"
                  /\ Graph[2 * i].model = models_status[i][1]
                  /\ Graph[2 * i + 1] = [kind |-> "style",
                                         model |-> models_status[i][1],
                                         stroke |-> StrokeOf(models_status[i][2])]
            /\ \A k \in (2 * L + 2)..Len(Graph) : Graph[k].kind = "edge"
            /\ \A k \in 1..Len(Graph) :
                  Graph[k].kind \in {"decl", "style"} => IsClassified(Graph[k].model)

\* a composed document: current lists the added "s.c", the modified "m.p.a"
\* and the unchanged "m.p.b", in this order; the diagram declares and styles
\* "s.c" and then "m.p.a", and has a dashed edge from "m.p.a" to "m.p.b"
C4_Witness ==
    /\ pc = "composed"
    /\ models_status = << <<IdC, "added">>, <<IdA, "modified">> >>
    /\ IsModelIn(IdB, CurrentNodes)
    /\ Graph[2] = DeclLine(IdC, IdC)
    /\ Graph[4] = DeclLine(IdA, <<"a">>)
    /\ Graph[5] = StyleLine(IdA, BORDER_COLOR)
    /\ Occurrences(EdgeLine(IdA, "-.->", IdB), Graph) = 1

(***************************************************************************)
(* SpecChecks: main on the documents that vary the check list: up to       *)
(* MaxChecks checks, each passed or failed, with an empty, a blank or a    *)
(* padded description, or with "is_checked" or "description" left out.     *)
(***************************************************************************)
Descriptions == {<<>>, <<" ">>, <<" ", "x", " ">>}

CheckRecs ==
    {Check(CheckKeys, n, c, d) :
        n \in {"c1", "c2"}, c \in BOOLEAN, d \in Descriptions}
    \cup {Check(CheckKeys \ {"is_checked"}, n, TRUE, d) :
              n \in {"c1", "c2"}, d \in Descriptions}
    \cup {Check(CheckKeys \ {"description"}, n, c, <<>>) :
              n \in {"c1", "c2"}, c \in BOOLEAN}

ChecksNodes ==
    { <<{}, {}>>,
      <<{<< <<IdA, Node({"model"}, Cs("x1"), Deps(<<IdA>>))>> >>},
        {<< <<IdA, Node({"model"}, Cs("x2"), {})>> >>}>>,
      <<{<< <<IdA, EmptyDict>> >>}, {}>> }

ChecksDocs ==
    {Doc(K, n[1], n[2]) :
        K \in {{}} \cup {{k} : k \in SeqsUpTo(CheckRecs, MaxChecks)},
        n \in ChecksNodes}

InitChecks == InitMain(ChecksDocs)

SpecChecks == InitChecks /\ [][Next]_vars

\* the collapsible sections of the composed document
Sections == SelectSeq(markdown_content, LAMBDA b : b.kind = "details")

\* C7: the passed count is the number of checks with is_checked true, the
\* failed count is the number of checks minus the passed count, and the
\* document has one collapsible section per check, in the order of the check
\* list; with no checks both counts are 0 and there is no section.
C7_CountsAndSections ==
    Composed =>
        LET passed == Cardinality({i \in 1..Len(checks) : checks[i]["is_checked"]})
        IN  /\ markdown_content[3] = [kind |-> "passed", count |-> passed]
            /\ markdown_content[4] = [kind |-> "failed", count |-> Len(checks) - passed]
            /\ Len(Sections) = Len(checks)
            /\ \A i \in 1..Len(checks) :
                  /\ Sections[i].name = checks[i]["name"]
                  /\ Sections[i].icon = IF checks[i]["is_checked"] THEN "pass" ELSE "fail"
            /\ checks = <<>> =>
                  /\ markdown_content[3].count = 0
                  /\ markdown_content[4].count = 0
                  /\ Sections = <<>>

\* a composed document for the failed check "c2" followed by the passed "c1"
C7_Witness ==
    /\ pc = "composed"
    /\ Len(checks) = 2
    /\ checks[1]["name"] = "c2" /\ ~checks[1]["is_checked"]
    /\ checks[2]["name"] = "c1" /\ checks[2]["is_checked"]
    /\ markdown_content[3].count = 1
    /\ markdown_content[4].count = 1
    /\ Sections[1].name = "c2"

\* C8: the output file is touched only once the document is composed (so after
\* the load, the classification and the projection), what is written is the
\* composed document, the confirmation is printed only after the write, and a
\* run that fails before save_markdown leaves the file untouched and prints
\* nothing.
C8_WriteAfterCompose ==
    /\ out_file.touched =>
          /\ Composed
          /\ pc # "composed"
          /\ recce_data = recce_file
          /\ Len(markdown_content) = 6 + Len(checks)
    /\ out_file.written => out_file.content = markdown_content
    /\ console # <<>> => (pc = "done" /\ out_file.written /\ console = <<Confirmation>>)
    /\ pc = "done" => console = <<Confirmation>>
    /\ (pc = "failed" /\ error.step # "save_markdown") =>
          (out_file = UntouchedFile /\ console = <<>>)

\* a run that failed while the document was composed: a check has no
\* "description"
C8_Witness ==
    /\ pc = "failed"
    /\ error.step = "generate_markdown"
    /\ Len(checks) = 2
    /\ "description" \in DOMAIN checks[1]
    /\ "description" \notin DOMAIN checks[2]
    /\ out_file = UntouchedFile

(***************************************************************************)
(* SpecFormat: format_model_name on every identifier of at most MaxLen     *)
(* characters over "a", "b" and the dot, re-applied to its own result.     *)
(***************************************************************************)
Chars == {"a", "b", "."}

InitFormat ==
    /\ name \in SeqsUpTo(Chars, MaxLen)
    /\ formatted = <<>>
    /\ pc = "format_model_name"
    /\ recce_file = EmptyDict
    /\ recce_data = EmptyDict
    /\ checks = <<>>
    /\ models_status = <<>>
    /\ dependencies = <<>>
    /\ markdown_content = <<>>
    /\ out_file = UntouchedFile
    /\ console = <<>>
    /\ error = NoError

\* the argument of the k-th application
ArgOf(k) == IF k = 1 THEN name ELSE formatted[k - 1]

FormatModelName ==
    /\ pc = "format_model_name"
    /\ Len(formatted) < MaxApply
    /\ formatted' = Append(formatted, format_model_name(ArgOf(Len(formatted) + 1)))
    /\ UNCHANGED <<main_vars, name>>

NextFormat == FormatModelName

SpecFormat == InitFormat /\ [][NextFormat]_vars

\* the places of the dots of s, the number of its dot-separated segments, and
\* what follows its k-th dot
DotsOf(s) == {i \in 1..Len(s) : s[i] = "."}
NumSegments(s) == Cardinality(DotsOf(s)) + 1
AfterDot(s, k) ==
    LET i == CHOOSE d \in DotsOf(s) : Cardinality({e \in DotsOf(s) : e <= d}) = k
    IN  SubSeq(s, i + 1, Len(s))

\* C10: format_model_name returns an identifier of at most 2 segments
\* unchanged, however often it is applied, and returns what follows the second
\* dot (the segments after the first two, in order) of an identifier of more
\* than 2 segments; applied again to a result of more than 2 segments it
\* strips two further segments, so it is not idempotent.
C10_FormatModelName ==
    /\ \A k \in 1..Len(formatted) :
          /\ NumSegments(ArgOf(k)) <= 2 => formatted[k] = ArgOf(k)
          /\ NumSegments(ArgOf(k)) > 2 =>
                /\ formatted[k] = AfterDot(ArgOf(k), 2)
                /\ NumSegments(formatted[k]) = NumSegments(ArgOf(k)) - 2
    /\ NumSegments(name) <= 2 => \A k \in 1..Len(formatted) : formatted[k] = name
    /\ (Len(formatted) >= 2 /\ NumSegments(formatted[1]) > 2) =>
          /\ formatted[2] = AfterDot(name, 4)
          /\ formatted[2] # formatted[1]

\* "a.b.a.b.a" gives "a.b.a", and that gives "a"
C10_Witness ==
    /\ name = <<"a", ".", "b", ".", "a", ".", "b", ".", "a">>
    /\ formatted = << <<"a", ".", "b", ".", "a">>, <<"a">> >>

====
